---- MODULE Spec2Model ----
(***************************************************************************)
(* A model of process_report: the new-PI credit stage of                   *)
(* process_report.py (apply_credits_new_pi, is_old_pi, load_old_pis),      *)
(* followed by the credit ledger with used amounts, which process_report.py*)
(* does not keep and which is modelled from its specification.  Further    *)
(* specifications run the whole of main (SpecMain), the functions main     *)
(* calls, each on its own (SpecCalls), and apply_credits_new_pi twice over *)
(* the same rows (SpecRerun).                                              *)
(*                                                                         *)
(* A dataframe is a sequence of rows in index order.  A cell that holds    *)
(* Python's None is the empty set, a cell that holds v is {v}.  An invoice *)
(* month "YYYY-MM" is the pair <<YYYY, MM>>; two month strings are equal   *)
(* exactly when their pairs are.                                           *)
(***************************************************************************)
EXTENDS Integers, Sequences, FiniteSets, TLC

\* ---------------------------------------------------------------- bounds
MaxRows == 3
MaxCostSteps == 2

\* ------------------------------------------------------- program constants
new_pi_credit_code == "0002"
new_pi_credit_amount == 1000

PIs == {"PI1", "PI2"}
\* Costs in steps of half the credit amount: below, at and above it.
Costs == {k * (new_pi_credit_amount \div 2) : k \in 0..MaxCostSteps}
\* The months a line of the old-PI file may name, and those an invoice may be for.
Months == {<<2023, 11>>, <<2023, 12>>, <<2024, 1>>, <<2024, 2>>}
InvoiceMonths == {<<2023, 12>>, <<2024, 1>>}

None == {}
Some(v) == {v}

\* ------------------------------------------------------------- helpers
Min(a, b) == IF a <= b THEN a ELSE b

\* The credit of a row without the cap of the remaining credit.
applied_credit_uncapped(project_cost, remaining) == project_cost

\* The credit of a row as all that remains, whatever the row costs.
applied_credit_all_remaining(project_cost, remaining) == remaining

\* min(project_cost, remaining_credit)
applied_credit_of(project_cost, remaining) == Min(project_cost, remaining)

RECURSIVE UniqueFrom(_, _)
UniqueFrom(s, seen) ==
  IF s = <<>> THEN <<>>
  ELSE IF Head(s) \in seen THEN UniqueFrom(Tail(s), seen)
       ELSE <<Head(s)>> \o UniqueFrom(Tail(s), seen \cup {Head(s)})

\* dataframe[PI_FIELD].unique(): the PIs in order of first appearance
unique_pis(df) == UniqueFrom([i \in 1..Len(df) |-> df[i].pi], {})

RECURSIVE IndicesFrom(_, _, _)
IndicesFrom(df, p, i) ==
  IF i > Len(df) THEN <<>>
  ELSE IF df[i].pi = p THEN <<i>> \o IndicesFrom(df, p, i + 1)
       ELSE IndicesFrom(df, p, i + 1)

RECURSIVE IndicesDownFrom(_, _, _)
IndicesDownFrom(df, p, i) ==
  IF i < 1 THEN <<>>
  ELSE IF df[i].pi = p THEN <<i>> \o IndicesDownFrom(df, p, i - 1)
       ELSE IndicesDownFrom(df, p, i - 1)

\* The rows of pi taken last row first.
pi_projects_last_first(df, p) == IndicesDownFrom(df, p, Len(df))

\* The row labels of every PI's rows, whoever is asked for.
pi_projects_of_everyone(df, p) == [i \in 1..Len(df) |-> i]

\* dataframe[dataframe[PI_FIELD] == pi]: the row labels of pi, in row order
pi_projects_of(df, p) == IndicesFrom(df, p, 1)

\* The rows as merged, before the credit columns are set.
InputRows(m) == [pi : PIs, month : {m}, cost : Costs]
blank_row(r) ==
  [pi |-> r.pi, month |-> r.month, cost |-> r.cost,
   credit |-> None, code |-> None, balance |-> 0]
\* The merged invoices of one invoice month.
InputFrames ==
  UNION {[1..n -> InputRows(m)] : n \in 0..MaxRows, m \in InvoiceMonths}

\* The old-PI file: absent, or one "pi,first_month" line per listed PI.
OldPiFiles ==
  {[exists |-> FALSE, lines |-> <<>>]} \cup
  {[exists |-> TRUE, lines |-> f] :
     f \in UNION {[S -> Months] : S \in SUBSET PIs}}

\* A load that keeps the PI of each line and takes the month from elsewhere.
load_old_pis_wrong_month(file) ==
  [p \in DOMAIN file.lines |-> <<2024, 1>>]

\* load_old_pis: the dict of the file's lines (the file exists)
load_old_pis(file) == file.lines

\* The comparison of is_old_pi turned round.
is_old_pi_same_month(dict, p, month) ==
  p \in DOMAIN dict /\ dict[p] = month

\* is_old_pi
is_old_pi(dict, p, month) ==
  p \in DOMAIN dict /\ dict[p] # month

\* ---------------------------------------------------------------- state
VARIABLES
  old_pi_file,       \* the old-PI file on disk
  dataframe,         \* the billable rows with their credit columns
  old_pi_dict,       \* apply_credits_new_pi's dict of the old-PI file
  invoice_month,     \* None, or the first row's Invoice Month
  current_pi_list,   \* the PIs the outer loop has still to visit
  pi,                \* None, or the PI the outer loop is at
  pi_projects,       \* the row labels of pi the inner loop has still to visit
  remaining_credit,  \* the credit left for pi
  pc,                \* where the program is
  ledger,            \* the credit ledger: PI -> PILedgerEntry
  usage,             \* the usage rows the distributor returned
  engine,            \* "loaded", "returned" or "aborted"
  args,              \* main: the parsed command line
  merged_dataframe,  \* main: the merged invoices, with their institutions
  nonbillable_pi,    \* main: pi, the lines of the non-billable PI file
  projects,          \* main: the non-billable and the timed projects
  timed_projects_list, \* main: what timed_projects returned
  invoice_list,      \* main: the invoices handed to export_invoices
  io,                \* the files written and uploaded so far, in order
  stdout,            \* the warnings printed so far, in order
  call,              \* a function called on its own, with its arguments
  result,            \* None, or what the call returned
  billable_projects, \* the rows a caller hands to apply_credits_new_pi
  first_run,         \* None, or the rows its first invocation returned
  runs               \* the invocations made over billable_projects

report_vars == <<old_pi_file, dataframe, old_pi_dict, invoice_month,
                 current_pi_list, pi, pi_projects, remaining_credit, pc>>
ledger_vars == <<ledger, usage, engine>>
main_vars == <<args, merged_dataframe, nonbillable_pi, projects,
               timed_projects_list, invoice_list, io, stdout>>
call_vars == <<call, result>>
rerun_vars == <<billable_projects, first_run, runs>>
vars == <<report_vars, ledger_vars, main_vars, call_vars, rerun_vars>>

\* What the credit stage of process_report.py leaves alone.
outside_report == <<ledger_vars, main_vars, call_vars, rerun_vars>>

\* main has not started.
main_idle ==
  /\ args = [invoice_month |-> None, upload_to_s3 |-> FALSE]
  /\ merged_dataframe = <<>>
  /\ nonbillable_pi = {}
  /\ projects = {}
  /\ timed_projects_list = <<>>
  /\ invoice_list = <<>>
  /\ io = <<>>
  /\ stdout = <<>>

\* No function is called on its own.
call_idle ==
  /\ call = <<>>
  /\ result = None

\* No caller invokes apply_credits_new_pi over rows of its own.
rerun_idle ==
  /\ billable_projects = <<>>
  /\ first_run = None
  /\ runs = 0

\* The credit ledger is not in use.
ledger_idle ==
  /\ ledger = <<>>
  /\ usage = <<>>
  /\ engine = "loaded"

\* apply_credits_new_pi has not been entered.
report_idle ==
  /\ dataframe = <<>>
  /\ old_pi_dict = <<>>
  /\ invoice_month = None
  /\ current_pi_list = <<>>
  /\ pi = None
  /\ pi_projects = <<>>
  /\ remaining_credit = 0

Init ==
  /\ old_pi_file \in OldPiFiles
  /\ dataframe = <<>>
  /\ old_pi_dict = <<>>
  /\ invoice_month = None
  /\ current_pi_list = <<>>
  /\ pi = None
  /\ pi_projects = <<>>
  /\ remaining_credit = 0
  /\ pc = "main"
  /\ ledger = <<>>
  /\ usage = <<>>
  /\ engine = "loaded"
  /\ main_idle /\ call_idle /\ rerun_idle

\* main, up to the call of apply_credits_new_pi: the billable rows are ready.
main_billable_projects ==
  /\ UNCHANGED outside_report
  /\ pc = "main"
  /\ \E df \in InputFrames :
       dataframe' = [i \in 1..Len(df) |-> blank_row(df[i])]
  /\ old_pi_dict' = <<>>
  /\ invoice_month' = None
  /\ current_pi_list' = <<>>
  /\ pi' = None
  /\ pi_projects' = <<>>
  /\ remaining_credit' = 0
  /\ pc' = "apply"
  /\ UNCHANGED old_pi_file

\* apply_credits_new_pi, lines 287-297: the columns are reset, the old-PI
\* file is read (a missing file ends the process), the PI list and the
\* invoice month of the first row are taken (no first row: IndexError).
apply_credits_begin ==
  /\ UNCHANGED outside_report
  /\ pc = "apply"
  /\ dataframe' = [i \in 1..Len(dataframe) |->
                     [dataframe[i] EXCEPT !.credit = None, !.code = None,
                                          !.balance = 0]]
  /\ IF ~old_pi_file.exists
       THEN /\ pc' = "exit"
            /\ UNCHANGED <<old_pi_dict, invoice_month, current_pi_list>>
       ELSE /\ old_pi_dict' = load_old_pis(old_pi_file)
            /\ current_pi_list' = unique_pis(dataframe)
            /\ IF Len(dataframe) = 0
                 THEN /\ pc' = "error"
                      /\ UNCHANGED invoice_month
                 ELSE /\ invoice_month' = Some(dataframe[1].month)
                      /\ pc' = "for_pi"
  /\ UNCHANGED <<old_pi_file, pi, pi_projects, remaining_credit>>

TheMonth == CHOOSE m \in invoice_month : TRUE
ThePi == CHOOSE p \in pi : TRUE

\* for pi in current_pi_list: lines 299-302 and 306
for_pi ==
  /\ UNCHANGED outside_report
  /\ pc = "for_pi"
  /\ current_pi_list # <<>>
  /\ pi' = Some(Head(current_pi_list))
  /\ current_pi_list' = Tail(current_pi_list)
  /\ pi_projects' = pi_projects_of(dataframe, Head(current_pi_list))
  /\ IF is_old_pi(old_pi_dict, Head(current_pi_list), TheMonth)
       THEN /\ pc' = "old_rows"
            /\ UNCHANGED remaining_credit
       ELSE /\ pc' = "credit_rows"
            /\ remaining_credit' = new_pi_credit_amount
  /\ UNCHANGED <<old_pi_file, dataframe, old_pi_dict, invoice_month>>

\* lines 303-304: one row of an old PI
old_row ==
  /\ UNCHANGED outside_report
  /\ pc = "old_rows"
  /\ IF pi_projects = <<>>
       THEN /\ pc' = "for_pi"
            /\ UNCHANGED <<dataframe, pi_projects>>
       ELSE LET i == Head(pi_projects) IN
            /\ dataframe' = [dataframe EXCEPT ![i].balance = dataframe[i].cost]
            /\ pi_projects' = Tail(pi_projects)
            /\ pc' = "old_rows"
  /\ UNCHANGED <<old_pi_file, old_pi_dict, invoice_month, current_pi_list, pi,
                 remaining_credit>>

\* The row of lines 308-313 after the iteration.
credited_row(row, applied_credit) ==
  [row EXCEPT !.credit = Some(applied_credit),
              !.code = Some(new_pi_credit_code),
              !.balance = row.cost - applied_credit]

\* lines 316-317: the inner loop stops
loop_breaks(remaining) == remaining = 0

\* lines 307-317: one row of a PI that is not old
credit_row ==
  /\ UNCHANGED outside_report
  /\ pc = "credit_rows"
  /\ IF pi_projects = <<>>
       THEN /\ pc' = "for_pi"
            /\ UNCHANGED <<dataframe, pi_projects, remaining_credit>>
       ELSE LET i == Head(pi_projects)
                applied_credit ==
                  applied_credit_of(dataframe[i].cost, remaining_credit)
            IN
            /\ dataframe' =
                 [dataframe EXCEPT ![i] = credited_row(dataframe[i], applied_credit)]
            /\ remaining_credit' = remaining_credit - applied_credit
            /\ pi_projects' = Tail(pi_projects)
            /\ pc' = IF loop_breaks(remaining_credit - applied_credit)
                       THEN "for_pi" ELSE "credit_rows"
  /\ UNCHANGED <<old_pi_file, old_pi_dict, invoice_month, current_pi_list, pi>>

\* line 319: return dataframe
apply_credits_return ==
  /\ UNCHANGED outside_report
  /\ pc = "for_pi"
  /\ current_pi_list = <<>>
  /\ pc' = "done"
  /\ UNCHANGED <<old_pi_file, dataframe, old_pi_dict, invoice_month,
                 current_pi_list, pi, pi_projects, remaining_credit>>

\* The process has ended; the next invocation starts from the same file.
main_again ==
  /\ UNCHANGED outside_report
  /\ pc \in {"done", "exit", "error"}
  /\ dataframe' = <<>>
  /\ old_pi_dict' = <<>>
  /\ invoice_month' = None
  /\ current_pi_list' = <<>>
  /\ pi' = None
  /\ pi_projects' = <<>>
  /\ remaining_credit' = 0
  /\ pc' = "main"
  /\ UNCHANGED old_pi_file

Next ==
  \/ main_billable_projects
  \/ main_again
  \/ apply_credits_begin
  \/ for_pi
  \/ old_row
  \/ credit_row
  \/ apply_credits_return

Spec == Init /\ [][Next]_vars

TypeOK ==
  /\ old_pi_file \in OldPiFiles
  /\ pc \in {"main", "apply", "for_pi", "old_rows", "credit_rows", "done",
             "exit", "error"}
  /\ remaining_credit \in 0..new_pi_credit_amount

\* ------------------------------------------------- the credit ledger
\* The credit aging engine with its ledger of used credit, as the
\* specification describes it (data model, month-age classifier, per-PI
\* credit distributor).  Its code, BillableInvoice._apply_credits_new_pi and
\* _get_pi_age, is exercised by TestCredit0002 but is not part of
\* process_report.py, which keeps no used amounts.
MaxLedgerRows == 2

MonthIndex(m) == m[1] * 12 + m[2]

\* get_month_diff(a, b) = (a.year*12 + a.month) - (b.year*12 + b.month)
get_month_diff(a, b) == MonthIndex(a) - MonthIndex(b)

\* age = (current.year*12 + current.month) - (first.year*12 + first.month)
age_in_months(first, current) == MonthIndex(current) - MonthIndex(first)

\* new, aging, old; "fault" for a first month after the current one
classify(led, p, month) ==
  IF p \notin DOMAIN led THEN "new"
  ELSE LET age == age_in_months(led[p].first_invoice_month, month) IN
       IF age < 0 THEN "fault"
       ELSE IF age = 0 THEN "new"
       ELSE IF age = 1 THEN "aging"
       ELSE "old"

\* The entry made for a PI that appears for the first time.
fresh_entry(month) ==
  [first_invoice_month |-> month,
   initial_credit_amount |-> new_pi_credit_amount,
   month_1_used |-> 0,
   month_2_used |-> 0]

with_entry(led, p, month) ==
  IF p \in DOMAIN led THEN led
  ELSE [q \in DOMAIN led \cup {p} |->
          IF q = p THEN fresh_entry(month) ELSE led[q]]

remaining_budget(entry, class) ==
  IF class = "new" THEN entry.initial_credit_amount - entry.month_1_used
  ELSE IF class = "aging"
    THEN entry.initial_credit_amount - entry.month_1_used - entry.month_2_used
  ELSE 0

\* One usage row after the distributor has looked at it.
distributed_row(row, applied) ==
  IF applied > 0
    THEN [row EXCEPT !.credit = Some(applied),
                     !.code = Some(new_pi_credit_code),
                     !.balance = row.cost - applied]
    ELSE [row EXCEPT !.balance = row.cost]

\* The rows of one PI in row order, until the budget is 0.
RECURSIVE distribute_rows(_, _, _)
distribute_rows(df, idx, budget) ==
  IF idx = <<>> \/ budget = 0 THEN [frame |-> df, left |-> budget]
  ELSE LET i == Head(idx)
           applied == Min(df[i].cost, budget)
       IN distribute_rows([df EXCEPT ![i] = distributed_row(df[i], applied)],
                          Tail(idx), budget - applied)

\* The total applied credit goes to the month the PI is in.
with_used(led, p, class, used) ==
  IF class = "new"
    THEN [led EXCEPT ![p].month_1_used = led[p].month_1_used + used]
  ELSE IF class = "aging"
    THEN [led EXCEPT ![p].month_2_used = led[p].month_2_used + used]
  ELSE led

\* The PIs in order of first appearance, each against its own entry.
RECURSIVE distribute(_, _, _, _)
distribute(led, df, pis, month) ==
  IF pis = <<>> THEN [ledger |-> led, frame |-> df]
  ELSE LET p == Head(pis)
           class == classify(led, p, month)
           led1 == with_entry(led, p, month)
           budget == remaining_budget(led1[p], class)
           res == distribute_rows(df, pi_projects_of(df, p), budget)
       IN distribute(with_used(led1, p, class, budget - res.left),
                     res.frame, Tail(pis), month)

\* A usage row as the distributor receives it: no credit, balance = cost.
usage_row(r) ==
  [pi |-> r.pi, month |-> r.month, cost |-> r.cost,
   credit |-> None, code |-> None, balance |-> r.cost]
UsageFrames ==
  UNION {[1..n -> InputRows(m)] : n \in 1..MaxLedgerRows, m \in InvoiceMonths}

\* Amounts a ledger entry may hold: nothing, half or all of the credit amount.
LedgerAmounts ==
  {0, new_pi_credit_amount \div 2, new_pi_credit_amount}
LedgerEntries ==
  {e \in [first_invoice_month : Months,
          initial_credit_amount : LedgerAmounts \ {0},
          month_1_used : LedgerAmounts,
          month_2_used : LedgerAmounts] :
     e.month_1_used + e.month_2_used <= e.initial_credit_amount}
\* The ledgers a run may be handed: every entry within its initial credit.
Ledgers == UNION {[S -> LedgerEntries] : S \in SUBSET PIs}

InitLedger ==
  /\ old_pi_file = [exists |-> FALSE, lines |-> <<>>]
  /\ dataframe = <<>>
  /\ old_pi_dict = <<>>
  /\ invoice_month = None
  /\ current_pi_list = <<>>
  /\ pi = None
  /\ pi_projects = <<>>
  /\ remaining_credit = 0
  /\ pc = "main"
  /\ ledger \in Ledgers
  /\ usage = <<>>
  /\ engine = "loaded"
  /\ main_idle /\ call_idle /\ rerun_idle

\* One run of the distributor over the usage rows of an invoice month; a PI
\* whose first invoice month is after it is a fatal fault, and the run
\* returns nothing.
distributor_run ==
  /\ engine = "loaded"
  /\ \E rows \in UsageFrames :
       LET df == [i \in 1..Len(rows) |-> usage_row(rows[i])]
           month == rows[1].month
           pis == unique_pis(df)
       IN IF \E i \in 1..Len(pis) : classify(ledger, pis[i], month) = "fault"
            THEN /\ engine' = "aborted"
                 /\ usage' = df
                 /\ UNCHANGED ledger
            ELSE LET res == distribute(ledger, df, pis, month) IN
                 /\ engine' = "returned"
                 /\ usage' = res.frame
                 /\ ledger' = res.ledger
  /\ UNCHANGED <<report_vars, main_vars, call_vars, rerun_vars>>

\* The caller persists the ledger and loads it for the next run.
ledger_reloaded ==
  /\ engine \in {"returned", "aborted"}
  /\ engine' = "loaded"
  /\ usage' = <<>>
  /\ UNCHANGED ledger
  /\ UNCHANGED <<report_vars, main_vars, call_vars, rerun_vars>>

NextLedger ==
  \/ distributor_run
  \/ ledger_reloaded

SpecLedger == InitLedger /\ [][NextLedger]_vars

\* ------------------------------------------ functions called on their own
MaxTimedLines == 2
MaxCallRows == 2

Projects == {"ProjectA", "ProjectB"}

\* A cell pandas reads as missing.
nan == "nan"
isna(x) == x = nan
\* Series.isin: a missing cell is in no list of strings.
isin(x, values) == ~isna(x) /\ x \in values

\* pandas.to_datetime(month, format="%Y-%m"): the first day of the month,
\* as the Timestamp <<year, month, day>>.
to_datetime(m) == <<m[1], m[2], 1>>
\* a <= b of two Timestamps
timestamp_le(a, b) ==
  \/ a[1] < b[1]
  \/ a[1] = b[1] /\ a[2] < b[2]
  \/ a[1] = b[1] /\ a[2] = b[2] /\ a[3] <= b[3]

\* The mask with the month of the end date left out of the window.
timed_mask_end_exclusive(row, invoice_date) ==
  /\ timestamp_le(to_datetime(row.start), to_datetime(invoice_date))
  /\ timestamp_le(to_datetime(invoice_date), to_datetime(row.end))
  /\ to_datetime(invoice_date) # to_datetime(row.end)

\* (Start Date <= invoice_date) & (invoice_date <= End Date), both columns
\* converted with to_datetime, the invoice date coerced to a Timestamp
timed_mask(row, invoice_date) ==
  /\ timestamp_le(to_datetime(row.start), to_datetime(invoice_date))
  /\ timestamp_le(to_datetime(invoice_date), to_datetime(row.end))

\* timed_projects: dataframe[mask]["Project"].to_list()
timed_projects(timed_projects_file, invoice_date) ==
  LET masked == SelectSeq(timed_projects_file,
                          LAMBDA row : timed_mask(row, invoice_date))
  IN [i \in 1..Len(masked) |-> masked[i].project]

\* The lines of a timed-projects file: Project,Start Date,End Date
TimedLines == [project : Projects, start : Months, end : Months]
TimedFiles == UNION {[1..n -> TimedLines] : n \in 0..MaxTimedLines}

\* remove_non_billables: the rows whose PI and project are both billable
remove_non_billables(df, pi_list, project_list) ==
  SelectSeq(df, LAMBDA row :
    ~isin(row.pi, pi_list) /\ ~isin(row.project, project_list))

\* The filter with "and" for "or".
remove_billables_both_listed(df, pi_list, project_list) ==
  SelectSeq(df, LAMBDA row :
    isin(row.pi, pi_list) /\ isin(row.project, project_list))

\* remove_billables: the dataframe of the invoice it returns
remove_billables(df, pi_list, project_list) ==
  SelectSeq(df, LAMBDA row :
    isin(row.pi, pi_list) \/ isin(row.project, project_list))

\* RemoveNonbillablesProcessor._get_billables: the "Is Billable" column
get_billables(data, nonbillable_pis, nonbillable_projects) ==
  [i \in 1..Len(data) |->
     ~isin(data[i].pi, nonbillable_pis) /\
     ~isin(data[i].project, nonbillable_projects)]

\* Rows of a frame with their index label.
CallRows(i) == [index : {i}, pi : PIs \cup {nan}, project : Projects]
CallFrames ==
  UNION {{f \in [1..n -> UNION {CallRows(i) : i \in 1..n}] :
            \A i \in 1..n : f[i].index = i} : n \in 0..MaxCallRows}

TimedCalls ==
  [fn : {"timed_projects"}, timed_projects_file : TimedFiles,
   invoice_date : InvoiceMonths]
BillableCalls ==
  [fn : {"remove_non_billables"}, dataframe : CallFrames,
   pi : SUBSET PIs, projects : SUBSET Projects]

timed_projects_called ==
  /\ call.fn = "timed_projects" /\ result = None
  /\ result' = Some(timed_projects(call.timed_projects_file, call.invoice_date))
  /\ UNCHANGED <<call, report_vars, ledger_vars, main_vars, rerun_vars>>

\* The two filters of main and the processor's column, over the same rows.
remove_non_billables_called ==
  /\ call.fn = "remove_non_billables" /\ result = None
  /\ result' = Some(
       [billable |-> remove_non_billables(call.dataframe, call.pi, call.projects),
        nonbillable |-> remove_billables(call.dataframe, call.pi, call.projects),
        is_billable |-> get_billables(call.dataframe, call.pi, call.projects)])
  /\ UNCHANGED <<call, report_vars, ledger_vars, main_vars, rerun_vars>>

\* --- the partner-eligibility filter (BillableInvoice._filter_partners), as
\* the specification describes it; its code is not part of process_report.py.
\* A partnership start date is text: a year and the digits of a month, with
\* or without a leading zero ("2024-06", "2024-6").
StartDates ==
  [year : {2024}, month : {<<0, 2>>, <<6>>, <<0, 6>>, <<1, 1>>}]
\* The invoice months the partner filter is asked about.
PartnerMonths == {<<2024, 1>>, <<2024, 6>>, <<2024, 12>>}
Institutions == {"BU", "HU", "MIT"}
\* The partner table: a partnership_start_date, or None, per display_name.
PartnerTables ==
  UNION {[S -> {Some(d) : d \in StartDates} \cup {None}] :
           S \in SUBSET {"BU", "HU"}}

\* The number a month's digits stand for.
parse_month(digits) ==
  IF Len(digits) = 1 THEN digits[1] ELSE 10 * digits[1] + digits[2]
\* The year-month a date text stands for.
parse_year_month(date) == <<date.year, parse_month(date.month)>>
\* The text "YYYY-MM" of an invoice month.
month_text(m) == [year |-> m[1], month |-> <<m[2] \div 10, m[2] % 10>>]

\* a <= b of two texts of digits, character by character
RECURSIVE digits_le(_, _)
digits_le(a, b) ==
  IF a = <<>> THEN TRUE
  ELSE IF b = <<>> THEN FALSE
  ELSE IF Head(a) # Head(b) THEN Head(a) < Head(b)
  ELSE digits_le(Tail(a), Tail(b))

\* The start date compared with the invoice month as strings.
partnership_active_as_strings(start, invoice) ==
  /\ start # None
  /\ LET d == CHOOSE x \in start : TRUE IN
     \/ d.year < invoice[1]
     \/ d.year = invoice[1] /\ digits_le(d.month, month_text(invoice).month)

\* The partnership has started by the invoice month: the month difference
\* of the invoice month and the start date is not negative.
partnership_active(start, invoice) ==
  /\ start # None
  /\ get_month_diff(invoice, parse_year_month(CHOOSE x \in start : TRUE)) >= 0

\* The rows whose institution is an active partner, in their order.
filter_partners(data, institute_list, invoice) ==
  SelectSeq(data, LAMBDA row :
    /\ row.institution \in DOMAIN institute_list
    /\ partnership_active(institute_list[row.institution], invoice))

PartnerRows(i) == [index : {i}, institution : Institutions]
PartnerFrames ==
  UNION {{f \in [1..n -> UNION {PartnerRows(i) : i \in 1..n}] :
            \A i \in 1..n : f[i].index = i} : n \in 0..MaxCallRows}
PartnerCalls ==
  [fn : {"filter_partners"}, data : PartnerFrames,
   institute_list : PartnerTables, invoice_month : PartnerMonths]

filter_partners_called ==
  /\ call.fn = "filter_partners" /\ result = None
  /\ result' = Some(filter_partners(call.data, call.institute_list,
                                    call.invoice_month))
  /\ UNCHANGED <<call, report_vars, ledger_vars, main_vars, rerun_vars>>

\* --- the institution subsidy (BUInternalInvoice), as the specification
\* describes it and as TestBUSubsidy expects it; its code is not part of
\* process_report.py.
subsidy_amount == 100
subsidised_institution == "Boston University"

\* A project name is its tokens between dashes: "ProjectE-test-r25135" is
\* <<"ProjectE", "test", "r25135">>.  The trailing allocation token goes.
get_project(project_alloc) ==
  IF Len(project_alloc) > 1
    THEN SubSeq(project_alloc, 1, Len(project_alloc) - 1)
    ELSE project_alloc

ProjectAllocs ==
  {<<"ProjectA", "e6413">>, <<"ProjectA", "t575e6">>,
   <<"ProjectE", "test", "r25135">>, <<"ProjectF">>}
\* Cost, credit and balance of a row after the credit stage.
SubsidyAmounts ==
  {[cost |-> 1050, credit |-> 1000, balance |-> 50],
   [cost |-> 500, credit |-> 0, balance |-> 500],
   [cost |-> 100, credit |-> 0, balance |-> 100]}
SubsidyRows ==
  [pi : PIs, institution : {"Boston University", "Harvard University"},
   project : ProjectAllocs, amounts : SubsidyAmounts]
\* A project has one PI at one institution.
SubsidyFrames ==
  UNION {{f \in [1..n -> SubsidyRows] :
            \A i, j \in 1..n :
              get_project(f[i].project) = get_project(f[j].project) =>
                f[i].pi = f[j].pi /\ f[i].institution = f[j].institution} :
         n \in 0..MaxCallRows}

RECURSIVE SumSeq(_)
\* The sum of a sequence of numbers.
SumSeq(s) == IF s = <<>> THEN 0 ELSE Head(s) + SumSeq(Tail(s))

\* The rows of the subsidised institution under their project names,
\* grouped by name in order of first appearance, with cost, credit and
\* balance summed.
subsidy_groups(data) ==
  LET rows == SelectSeq(data, LAMBDA r : r.institution = subsidised_institution)
      names == UniqueFrom([i \in 1..Len(rows) |-> get_project(rows[i].project)], {})
      of(name) == SelectSeq(rows, LAMBDA r : get_project(r.project) = name)
  IN [k \in 1..Len(names) |->
        [project |-> names[k],
         pi |-> of(names[k])[1].pi,
         cost |-> SumSeq([n \in 1..Len(of(names[k])) |-> of(names[k])[n].amounts.cost]),
         credit |-> SumSeq([n \in 1..Len(of(names[k])) |-> of(names[k])[n].amounts.credit]),
         subsidy |-> 0,
         balance |-> SumSeq([n \in 1..Len(of(names[k])) |-> of(names[k])[n].amounts.balance])]]

\* A subsidy that ignores how little balance is left.
applied_subsidy_uncapped(balance, remaining) == remaining

\* min(balance, remaining subsidy)
applied_subsidy_of(balance, remaining) == Min(balance, remaining)

RECURSIVE subsidise(_, _)
\* Each PI's subsidy amount goes to its projects in order until it is used.
subsidise(groups, used) ==
  IF groups = <<>> THEN <<>>
  ELSE LET g == Head(groups)
           applied == applied_subsidy_of(g.balance, subsidy_amount - used[g.pi])
       IN <<[g EXCEPT !.subsidy = applied, !.balance = g.balance - applied]>>
          \o subsidise(Tail(groups), [used EXCEPT ![g.pi] = @ + applied])

apply_subsidy(data) == subsidise(subsidy_groups(data), [p \in PIs |-> 0])

SubsidyCalls == [fn : {"apply_subsidy"}, data : SubsidyFrames]

apply_subsidy_called ==
  /\ call.fn = "apply_subsidy" /\ result = None
  /\ result' = Some(apply_subsidy(call.data))
  /\ UNCHANGED <<call, report_vars, ledger_vars, main_vars, rerun_vars>>

\* ------------------------------------------------------- per-PI export
MaxExportRows == 3

\* The rows of every PI, whoever is asked for.
pi_rows_of_all(df, p) == df

\* dataframe[dataframe[PI_FIELD] == pi]: the rows of one PI, in order; a
\* missing PI equals nothing, itself included.
pi_rows(df, p) == SelectSeq(df, LAMBDA row : ~isna(p) /\ row.pi = p)

\* export_pi_billables: one file per PI of the rows that is not missing,
\* named from the institution of its first row, the PI and the invoice month.
export_pi_billables_io(df, month) ==
  LET pi_list == SelectSeq(unique_pis(df), LAMBDA p : ~isna(p))
  IN [k \in 1..Len(pi_list) |->
        [op |-> "to_csv",
         path |-> <<pi_rows(df, pi_list[k])[1].institution, "_", pi_list[k],
                    "_", month, ".csv">>,
         rows |-> pi_rows(df, pi_list[k])]]

\* PIInvoice.export: the same files, with a space before the invoice month.
PIInvoice_export_io(data, month) ==
  LET pi_list == SelectSeq(unique_pis(data), LAMBDA p : ~isna(p))
  IN [k \in 1..Len(pi_list) |->
        [op |-> "to_csv",
         path |-> <<pi_rows(data, pi_list[k])[1].institution, "_", pi_list[k],
                    " ", month, ".csv">>,
         rows |-> pi_rows(data, pi_list[k])]]

ExportInstitutions == {"BU", "HU"}
ExportRows(i) ==
  [index : {i}, pi : PIs \cup {nan}, institution : ExportInstitutions]
ExportFrames ==
  UNION {{df \in [1..n -> UNION {ExportRows(i) : i \in 1..n}] :
            \A i \in 1..n : df[i].index = i} : n \in 0..MaxExportRows}
ExportCalls ==
  [fn : {"export_pi_billables", "PIInvoice.export"},
   dataframe : ExportFrames, invoice_month : InvoiceMonths]

export_pi_billables_called ==
  /\ call.fn = "export_pi_billables" /\ result = None
  /\ result' = Some(export_pi_billables_io(call.dataframe, call.invoice_month))
  /\ UNCHANGED <<call, report_vars, ledger_vars, main_vars, rerun_vars>>

PIInvoice_export_called ==
  /\ call.fn = "PIInvoice.export" /\ result = None
  /\ result' = Some(PIInvoice_export_io(call.dataframe, call.invoice_month))
  /\ UNCHANGED <<call, report_vars, ledger_vars, main_vars, rerun_vars>>


\* ------------------------------------------------------------------ main
\* main of process_report.py from the merged invoices to export_invoices.
MaxMainRows == 2

\* PI names as they stand in the invoices: an e-mail address, a bare name.
MainPIs == {"q@bu.edu", "PI2"}
SUTypes == {"CPU", "OpenShift GPUA100SXM4", "OpenStack GPUA100SXM4"}
LENOVO_SU_TYPES == {"OpenShift GPUA100SXM4", "OpenStack GPUA100SXM4"}

\* A row of an invoice as read: no institution and no credit columns yet.
MainRows(m) ==
  [pi : MainPIs \cup {nan}, project : Projects, su_type : SUTypes,
   institution : {nan}, month : {m}, cost : {new_pi_credit_amount \div 2},
   credit : {None}, code : {None}, balance : {0}]
MergedFrames(m) == UNION {[1..n -> MainRows(m)] : n \in 0..MaxMainRows}

\* The old-PI file given to main: none, an empty one, one that lists a PI.
MainOldPiFiles ==
  {[exists |-> FALSE, lines |-> <<>>],
   [exists |-> TRUE, lines |-> <<>>],
   [exists |-> TRUE, lines |-> [p \in {"q@bu.edu"} |-> <<2023, 11>>]]}
\* The timed-projects file given to main.
MainTimedFiles ==
  {<<>>, <<[project |-> "ProjectA", start |-> <<2023, 11>>, end |-> <<2023, 12>>]>>}

\* The PI names get_institution_from_pi is called with, and the text of
\* each: its pieces in order, the labels of a domain being set apart by dots.
Unames ==
  MainPIs \cup {"b@harvard.edu", "e@edu", "h@a.b.c.harvard.edu",
                "c@a.childrens.harvard.edu", "e@dfci.harvard"}
text_of(pi_uname) ==
  CASE pi_uname = "q@bu.edu" -> <<"q", "@", "bu", "edu">>
    [] pi_uname = "b@harvard.edu" -> <<"b", "@", "harvard", "edu">>
    [] pi_uname = "e@edu" -> <<"e", "@", "edu">>
    [] pi_uname = "h@a.b.c.harvard.edu" ->
         <<"h", "@", "a", "b", "c", "harvard", "edu">>
    [] pi_uname = "c@a.childrens.harvard.edu" ->
         <<"c", "@", "a", "childrens", "harvard", "edu">>
    [] pi_uname = "e@dfci.harvard" -> <<"e", "@", "dfci", "harvard">>
    [] OTHER -> <<pi_uname>>

RECURSIVE split_last(_, _)
\* text.split(sep)[-1]: what follows the last sep, or the whole text
split_last(text, sep) ==
  IF \A n \in 1..Len(text) : text[n] # sep THEN text
  ELSE split_last(Tail(text), sep)

\* pi_uname.split("@")[-1]
institution_key(pi_uname) == split_last(text_of(pi_uname), "@")

\* The entries of institute_map.json the PI names above can meet.
institute_map ==
  [k \in {<<"bu", "edu">>, <<"harvard", "edu">>,
          <<"childrens", "harvard", "edu">>, <<"dfci", "harvard", "edu">>} |->
     CASE k = <<"bu", "edu">> -> "Boston University"
       [] k = <<"harvard", "edu">> -> "Harvard University"
       [] k = <<"childrens", "harvard", "edu">> -> "Boston Children's Hospital"
       [] OTHER -> "Dana-Farber Cancer Institute"]

\* get_institution_from_pi: institute_map.get(institution_key, "")
get_institution_from_pi(map, pi_uname) ==
  IF institution_key(pi_uname) \in DOMAIN map
    THEN map[institution_key(pi_uname)] ELSE ""

\* What get_institution_from_pi prints: a warning when no name was found.
get_institution_from_pi_prints(map, pi_uname) ==
  IF get_institution_from_pi(map, pi_uname) = ""
    THEN <<[warning |-> "does not match any institution", about |-> pi_uname]>>
    ELSE <<>>

\* add_institution: the rows with the institution of each PI
add_institution(df) ==
  [i \in 1..Len(df) |->
     IF isna(df[i].pi) THEN df[i]
     ELSE [df[i] EXCEPT
             !.institution = get_institution_from_pi(institute_map, df[i].pi)]]

\* What add_institution prints, row by row.
add_institution_prints(df) ==
  LET noted == SelectSeq(df, LAMBDA row :
                 isna(row.pi) \/ get_institution_from_pi(institute_map, row.pi) = "")
  IN [i \in 1..Len(noted) |->
        IF isna(noted[i].pi)
          THEN [warning |-> "has no PI", about |-> noted[i].project]
          ELSE [warning |-> "does not match any institution",
                about |-> noted[i].pi]]

\* A validation that lets every row through.
validate_pi_names_keeps_all(df) == df

\* validate_pi_names: the rows whose PI is not missing
validate_pi_names(df) == SelectSeq(df, LAMBDA row : ~isna(row.pi))

\* What validate_pi_names prints: a warning per row with a missing PI.
validate_pi_names_prints(df) ==
  LET invalid_pi_projects == SelectSeq(df, LAMBDA row : isna(row.pi))
  IN [i \in 1..Len(invalid_pi_projects) |->
        [warning |-> "has empty PI field",
         about |-> invalid_pi_projects[i].project]]

\* fetch_S3_invoices: the invoices of the month are downloaded.
fetch_S3_invoices_io == <<[op |-> "download_file", path |-> <<"Service Invoices">>]>>

\* lines 150-159: the command line is parsed and the invoices are merged.
main_merge_csv ==
  /\ pc = "main_start"
  /\ \E df \in MergedFrames(CHOOSE m \in args.invoice_month : TRUE) :
       merged_dataframe' = df
  /\ io' = IF args.upload_to_s3 THEN io \o fetch_S3_invoices_io ELSE io
  /\ pc' = "merged"
  /\ UNCHANGED <<args, nonbillable_pi, projects, timed_projects_list,
                 invoice_list, stdout>>
  /\ UNCHANGED <<old_pi_file, dataframe, old_pi_dict, invoice_month,
                 current_pi_list, pi, pi_projects, remaining_credit>>
  /\ UNCHANGED <<ledger_vars, call_vars, rerun_vars>>

\* lines 161-174: the non-billable PIs and projects are read and the timed
\* projects of the invoice month are added to the projects.
main_nonbillable_lists ==
  /\ pc = "merged"
  /\ \E pi_file \in SUBSET {"PI2"}, projects_file \in SUBSET {"ProjectB"},
        timed_projects_file \in MainTimedFiles :
       LET timed == timed_projects(timed_projects_file,
                                   CHOOSE m \in args.invoice_month : TRUE)
       IN /\ nonbillable_pi' = pi_file
          /\ timed_projects_list' = timed
          /\ projects' = projects_file \cup {timed[i] : i \in 1..Len(timed)}
  /\ pc' = "lists"
  /\ UNCHANGED <<args, merged_dataframe, invoice_list, io, stdout>>
  /\ UNCHANGED <<old_pi_file, dataframe, old_pi_dict, invoice_month,
                 current_pi_list, pi, pi_projects, remaining_credit>>
  /\ UNCHANGED <<ledger_vars, call_vars, rerun_vars>>

\* A replacement field of a format string, and get_iso8601_time().
hole == "{}"
get_iso8601_time == "%Y%m%dT%H%M%SZ"

\* The two S3 paths remove_billables and export_billables give an invoice:
\* f"Invoices/{{}}/<name>{{}}.csv" and its archive path, each with two
\* replacement fields.
s3_paths(name) ==
  <<<<"Invoices/", hole, "/", name, hole, ".csv">>,
    <<"Invoices/", hole, "/", "Archive/", name, hole, " ", get_iso8601_time,
      ".csv">>>>

\* str.format: the n-th replacement field takes the n-th argument, and
\* IndexError is raised when there are fewer arguments than fields.
format_raises(template, fmt_args) ==
  Cardinality({n \in 1..Len(template) : template[n] = hole}) > Len(fmt_args)
RECURSIVE format_from(_, _, _)
format_from(template, fmt_args, n) ==
  IF template = <<>> THEN <<>>
  ELSE IF Head(template) = hole
         THEN <<fmt_args[n]>> \o format_from(Tail(template), fmt_args, n + 1)
         ELSE <<Head(template)>> \o format_from(Tail(template), fmt_args, n)
format(template, fmt_args) == format_from(template, fmt_args, 1)

\* The non-billable invoice written as soon as it is made.
remove_billables_writes_at_once(invoice) ==
  <<[op |-> "to_csv", path |-> invoice.local_path,
     rows |-> invoice.dataframe]>>

\* What remove_billables writes when it is called: nothing.
remove_billables_io(invoice) == <<>>

\* lines 178-181: the institutions are added and the non-billable invoice
\* is put on the invoice list.
main_add_institution ==
  /\ pc = "lists"
  /\ merged_dataframe' = add_institution(merged_dataframe)
  /\ stdout' = stdout \o add_institution_prints(merged_dataframe)
  /\ LET invoice ==
           [dataframe |-> remove_billables(add_institution(merged_dataframe),
                                           nonbillable_pi, projects),
            local_path |-> <<"nonbillable.csv">>,
            s3_paths |-> s3_paths("NERC (Non-Billable) ")]
     IN /\ invoice_list' = Append(invoice_list, invoice)
        /\ io' = io \o remove_billables_io(invoice)
  /\ pc' = "institutions"
  /\ UNCHANGED <<args, nonbillable_pi, projects, timed_projects_list>>
  /\ UNCHANGED <<old_pi_file, dataframe, old_pi_dict, invoice_month,
                 current_pi_list, pi, pi_projects, remaining_credit>>
  /\ UNCHANGED <<ledger_vars, call_vars, rerun_vars>>

\* lines 183-185: the billable rows are taken, those with a missing PI are
\* warned about and dropped, and the rest goes to apply_credits_new_pi.
main_validate_pi_names ==
  /\ pc = "institutions"
  /\ LET billable ==
           remove_non_billables(merged_dataframe, nonbillable_pi, projects)
     IN /\ stdout' = stdout \o validate_pi_names_prints(billable)
        /\ dataframe' = validate_pi_names(billable)
  /\ pc' = "apply"
  /\ UNCHANGED <<args, merged_dataframe, nonbillable_pi, projects,
                 timed_projects_list, invoice_list, io>>
  /\ UNCHANGED <<old_pi_file, old_pi_dict, invoice_month, current_pi_list,
                 pi, pi_projects, remaining_credit>>
  /\ UNCHANGED <<ledger_vars, call_vars, rerun_vars>>

\* export_HU_only, export_HU_BU and export_lenovo: one file each.
export_HU_only_io(df) ==
  <<[op |-> "to_csv", path |-> <<"HU_only.csv">>,
     rows |-> SelectSeq(df, LAMBDA row : row.institution = "Harvard University")]>>
export_HU_BU_io(df) ==
  <<[op |-> "to_csv", path |-> <<"HU_BU.csv">>,
     rows |-> SelectSeq(df, LAMBDA row :
                row.institution = "Harvard University" \/
                row.institution = "Boston University")]>>
export_lenovo_io(df, month) ==
  <<[op |-> "to_csv", path |-> <<"Lenovo", month>>,
     rows |-> SelectSeq(df, LAMBDA row : row.su_type \in LENOVO_SU_TYPES)]>>

\* lines 187-191: the credited rows are put on the invoice list and the
\* per-PI, HU, HU and BU, and Lenovo files are written.
main_exports ==
  /\ pc = "done"
  /\ args.invoice_month # None
  /\ LET month == CHOOSE m \in args.invoice_month : TRUE IN
     /\ invoice_list' =
          Append(invoice_list,
                 [dataframe |-> dataframe,
                  local_path |-> <<"filtered_output.csv">>,
                  s3_paths |-> s3_paths("NERC ")])
     /\ io' = io \o export_pi_billables_io(dataframe, month)
                 \o export_HU_only_io(dataframe)
                 \o export_HU_BU_io(dataframe)
                 \o export_lenovo_io(dataframe, month)
  /\ pc' = "export_invoices"
  /\ UNCHANGED <<args, merged_dataframe, nonbillable_pi, projects,
                 timed_projects_list, stdout>>
  /\ UNCHANGED <<old_pi_file, dataframe, old_pi_dict, invoice_month,
                 current_pi_list, pi, pi_projects, remaining_credit>>
  /\ UNCHANGED <<ledger_vars, call_vars, rerun_vars>>

\* The uploads of one invoice: its S3 paths in order, up to the first whose
\* format raises.
RECURSIVE upload_file_io(_, _, _)
upload_file_io(local_path, paths, month) ==
  IF paths = <<>> \/ format_raises(Head(paths), <<month>>) THEN <<>>
  ELSE <<[op |-> "upload_file", from |-> local_path,
          path |-> format(Head(paths), <<month>>)]>>
       \o upload_file_io(local_path, Tail(paths), month)

\* export_invoices stops at an invoice one of whose paths cannot be formatted.
invoice_raises(invoice, upload_to_s3, month) ==
  \/ format_raises(invoice.local_path, <<month>>)
  \/ /\ upload_to_s3
     /\ \E k \in 1..Len(invoice.s3_paths) :
          format_raises(invoice.s3_paths[k], <<month>>)
export_invoices_raises(invoices, upload_to_s3, month) ==
  \E n \in 1..Len(invoices) : invoice_raises(invoices[n], upload_to_s3, month)

RECURSIVE export_invoices_io(_, _, _)
\* export_invoices: each invoice is written to its local path and, with
\* upload_to_s3, uploaded to each of its S3 paths, until a format raises.
export_invoices_io(invoices, upload_to_s3, month) ==
  IF invoices = <<>> THEN <<>>
  ELSE LET invoice == Head(invoices)
           local_path == format(invoice.local_path, <<month>>)
           written == <<[op |-> "to_csv", path |-> local_path,
                         rows |-> invoice.dataframe]>>
       IN IF format_raises(invoice.local_path, <<month>>) THEN <<>>
          ELSE written
               \o (IF upload_to_s3
                     THEN upload_file_io(local_path, invoice.s3_paths, month)
                     ELSE <<>>)
               \o (IF invoice_raises(invoice, upload_to_s3, month) THEN <<>>
                   ELSE export_invoices_io(Tail(invoices), upload_to_s3, month))

\* line 192: export_invoices, after which main returns, or ends with the
\* IndexError of a format
main_export_invoices ==
  /\ pc = "export_invoices"
  /\ LET month == CHOOSE m \in args.invoice_month : TRUE IN
     /\ io' = io \o export_invoices_io(invoice_list, args.upload_to_s3, month)
     /\ pc' = IF export_invoices_raises(invoice_list, args.upload_to_s3, month)
                THEN "upload_error" ELSE "main_end"
  /\ UNCHANGED <<args, merged_dataframe, nonbillable_pi, projects,
                 timed_projects_list, invoice_list, stdout>>
  /\ UNCHANGED <<old_pi_file, dataframe, old_pi_dict, invoice_month,
                 current_pi_list, pi, pi_projects, remaining_credit>>
  /\ UNCHANGED <<ledger_vars, call_vars, rerun_vars>>

InitMain ==
  /\ old_pi_file \in MainOldPiFiles
  /\ pc = "main_start"
  /\ report_idle /\ ledger_idle /\ call_idle /\ rerun_idle
  /\ args \in [invoice_month : {Some(m) : m \in InvoiceMonths},
               upload_to_s3 : BOOLEAN]
  /\ merged_dataframe = <<>>
  /\ nonbillable_pi = {}
  /\ projects = {}
  /\ timed_projects_list = <<>>
  /\ invoice_list = <<>>
  /\ io = <<>>
  /\ stdout = <<>>

NextMain ==
  \/ main_merge_csv
  \/ main_nonbillable_lists
  \/ main_add_institution
  \/ main_validate_pi_names
  \/ apply_credits_begin
  \/ for_pi
  \/ old_row
  \/ credit_row
  \/ apply_credits_return
  \/ main_exports
  \/ main_export_invoices

SpecMain == InitMain /\ [][NextMain]_vars

\* ------------------------------------------ apply_credits_new_pi, twice
\* A caller that invokes apply_credits_new_pi over its rows, and then once
\* more over the rows it got back, with the same old-PI file.
MaxRuns == 2

\* The call: the function gets the caller's rows, which it changes in place.
rerun_invoke ==
  /\ pc = "main"
  /\ runs < MaxRuns
  /\ runs' = runs + 1
  /\ dataframe' = IF runs = 0 THEN billable_projects ELSE dataframe
  /\ old_pi_dict' = <<>>
  /\ invoice_month' = None
  /\ current_pi_list' = <<>>
  /\ pi' = None
  /\ pi_projects' = <<>>
  /\ remaining_credit' = 0
  /\ pc' = "apply"
  /\ UNCHANGED <<old_pi_file, billable_projects, first_run>>
  /\ UNCHANGED <<ledger_vars, main_vars, call_vars>>

\* The caller has the rows back; it keeps a copy of the first result.
rerun_returned ==
  /\ pc = "done"
  /\ first_run' = IF runs = 1 THEN Some(dataframe) ELSE first_run
  /\ pc' = "main"
  /\ UNCHANGED <<old_pi_file, dataframe, old_pi_dict, invoice_month,
                 current_pi_list, pi, pi_projects, remaining_credit>>
  /\ UNCHANGED <<billable_projects, runs>>
  /\ UNCHANGED <<ledger_vars, main_vars, call_vars>>

InitRerun ==
  /\ old_pi_file \in OldPiFiles
  /\ pc = "main"
  /\ report_idle /\ ledger_idle /\ main_idle /\ call_idle
  /\ billable_projects \in
       {[i \in 1..Len(df) |-> blank_row(df[i])] : df \in InputFrames}
  /\ first_run = None
  /\ runs = 0

NextRerun ==
  \/ rerun_invoke
  \/ apply_credits_begin
  \/ for_pi
  \/ old_row
  \/ credit_row
  \/ apply_credits_return
  \/ rerun_returned

SpecRerun == InitRerun /\ [][NextRerun]_vars

\* ------------------------------------- the functions called on their own
\* get_institution_from_pi with an institute map and a PI name
InstituteMaps ==
  {[k \in keys |-> institute_map[k]] : keys \in SUBSET DOMAIN institute_map}
InstitutionCalls ==
  [fn : {"get_institution_from_pi"}, institute_map : InstituteMaps,
   pi_uname : Unames]

get_institution_from_pi_called ==
  /\ call.fn = "get_institution_from_pi" /\ result = None
  /\ result' =
       Some([institution_name |->
               get_institution_from_pi(call.institute_map, call.pi_uname),
             stdout |->
               get_institution_from_pi_prints(call.institute_map, call.pi_uname)])
  /\ UNCHANGED <<call, report_vars, ledger_vars, main_vars, rerun_vars>>

InitCalls ==
  /\ old_pi_file = [exists |-> FALSE, lines |-> <<>>]
  /\ pc = "main"
  /\ report_idle /\ ledger_idle /\ main_idle /\ rerun_idle
  /\ call \in TimedCalls \cup BillableCalls \cup PartnerCalls \cup SubsidyCalls
                \cup ExportCalls \cup InstitutionCalls
  /\ result = None

NextCalls ==
  \/ timed_projects_called
  \/ remove_non_billables_called
  \/ filter_partners_called
  \/ apply_subsidy_called
  \/ export_pi_billables_called
  \/ PIInvoice_export_called
  \/ get_institution_from_pi_called

SpecCalls == InitCalls /\ [][NextCalls]_vars

TheResult == CHOOSE r \in result : TRUE
Returned(fn) == call.fn = fn /\ result # None

\* The index labels of a frame; the frame keeps the order of its labels.
Labels(df) == {df[i].index : i \in 1..Len(df)}
InOrder(df) == \A i, j \in 1..Len(df) : i < j => df[i].index < df[j].index

\* ------------------------------------------------ the claims' vocabulary
Credit0(row) == IF row.credit = None THEN 0 ELSE CHOOSE c \in row.credit : TRUE

RECURSIVE SumCost(_, _)
SumCost(df, idx) ==
  IF idx = <<>> THEN 0 ELSE df[Head(idx)].cost + SumCost(df, Tail(idx))
RECURSIVE SumCredit(_, _)
SumCredit(df, idx) ==
  IF idx = <<>> THEN 0 ELSE Credit0(df[Head(idx)]) + SumCredit(df, Tail(idx))

TotalCost(p) == SumCost(dataframe, pi_projects_of(dataframe, p))
TotalCredit(p) == SumCredit(dataframe, pi_projects_of(dataframe, p))

Rows == 1..Len(dataframe)
InData(p) == \E i \in Rows : dataframe[i].pi = p
\* The invoice month of the run: the month the merged rows carry.
CurrentMonth == dataframe[1].month
\* The ledger of the run is the old-PI file.
Ledger == old_pi_file.lines
HasEntry(p) == old_pi_file.exists /\ p \in DOMAIN Ledger
Age(p) == MonthIndex(CurrentMonth) - MonthIndex(Ledger[p])

IsNew(p) == InData(p) /\ (~HasEntry(p) \/ Age(p) = 0)
IsAging(p) == InData(p) /\ HasEntry(p) /\ Age(p) = 1
IsOld(p) == InData(p) /\ HasEntry(p) /\ Age(p) >= 2
IsFuture(p) == InData(p) /\ HasEntry(p) /\ Age(p) < 0

Distributed == pc = "done"

C2_BalanceIsCostMinusCredit ==
  Distributed =>
    \A i \in Rows :
      dataframe[i].balance = dataframe[i].cost - Credit0(dataframe[i])

SamePi(i, j) == dataframe[i].pi = dataframe[j].pi
Underpaid(i) == Credit0(dataframe[i]) < dataframe[i].cost
PartlyPaid(i) == Credit0(dataframe[i]) > 0 /\ Underpaid(i)
HasBudget == pc = "credit_rows" /\ remaining_credit > 0

\* C4 as stated: a row credited less than its cost has no credited row of
\* its PI after it and only fully credited rows of its PI before it.
C4_Original ==
  Distributed =>
    \A i \in Rows :
      Underpaid(i) =>
        /\ \A j \in Rows : (j > i /\ SamePi(i, j)) => Credit0(dataframe[j]) = 0
        /\ \A k \in Rows :
             (k < i /\ SamePi(i, k)) => Credit0(dataframe[k]) = dataframe[k].cost

C4_GreedyOrder ==
  \A i \in Rows :
    /\ Underpaid(i) =>
         \A j \in Rows : (j > i /\ SamePi(i, j)) => Credit0(dataframe[j]) = 0
    /\ PartlyPaid(i) =>
         \A k \in Rows :
           (k < i /\ SamePi(i, k)) => Credit0(dataframe[k]) = dataframe[k].cost

\* Within one PI the budget never comes back once it is gone.
C4_NeverBackStep ==
  (pi # None /\ pi' = pi /\ ~HasBudget) => ~HasBudget'

\* C4 (amended): within one PI, in row order, a row credited less than its
\* cost has no credited row after it, and a row credited some but not all of
\* its cost has only fully credited rows before it; the PI leaves HAS_BUDGET
\* at most once and never returns to it.
C4_GreedyOnce == []C4_GreedyOrder /\ [][C4_NeverBackStep]_vars

\* A PI with a fully credited row, then a partly credited one, then one
\* without credit.
C4_Witness ==
  /\ Distributed
  /\ \E i, j, k \in Rows :
       /\ i < j /\ j < k
       /\ SamePi(i, j) /\ SamePi(j, k)
       /\ Credit0(dataframe[i]) = dataframe[i].cost /\ dataframe[i].cost > 0
       /\ PartlyPaid(j)
       /\ Credit0(dataframe[k]) = 0 /\ dataframe[k].cost > 0

\* ------------------------------------------------------------------ C5
\* C5: a PI first billed one month before the invoice month (aging) is
\* credited, in row order, against what is left of its initial credit; the
\* old-PI file records no credit used, so what is left is the whole amount.
C5_AgingPICredited ==
  Distributed =>
    \A p \in PIs :
      IsAging(p) => TotalCredit(p) = Min(TotalCost(p), new_pi_credit_amount)

\* ------------------------------------------------------------------ C6
\* C6: a PI first billed two or more months before the invoice month (old)
\* gets no credit: each of its rows has no credit, no credit code and
\* balance = cost.
C6_OldPINoCredit ==
  Distributed =>
    \A i \in Rows :
      IsOld(dataframe[i].pi) =>
        /\ dataframe[i].credit = None
        /\ dataframe[i].code = None
        /\ dataframe[i].balance = dataframe[i].cost

\* An old PI whose rows cost more than the whole credit amount.
C6_Witness ==
  /\ Distributed
  /\ \E i, j \in Rows :
       /\ i < j /\ SamePi(i, j)
       /\ IsOld(dataframe[i].pi)
       /\ dataframe[i].cost > 0 /\ dataframe[j].cost >= new_pi_credit_amount
       /\ dataframe[j].balance = dataframe[j].cost

\* ------------------------------------------------------------------ C7
\* C7: a PI of the usage data whose ledger first month is later than the
\* invoice month ends the run with a fatal fault: it is never classified
\* and the run produces no credited output.
C7_FuturePIIsFatal ==
  \A p \in PIs :
    (pc # "main" /\ IsFuture(p)) =>
      /\ ~Distributed
      /\ ~(pi = Some(p) /\ pc \in {"old_rows", "credit_rows"})

\* ------------------------------------------------------------------ C8
\* C8: a PI of the usage data with no ledger entry is new, and after the
\* run the ledger holds an entry for it whose first invoice month is the
\* invoice month (with the credit it was given as its first-month use).
C8_NewPIEntryCreated ==
  Distributed =>
    \A p \in PIs :
      (InData(p) /\ p \notin DOMAIN old_pi_dict) =>
        /\ HasEntry(p)
        /\ Ledger[p] = CurrentMonth

\* ------------------------------------------------------------------ C9
\* C9: a run leaves the first invoice month of every ledger entry as it
\* was, leaves the entries of PIs without usage rows and of old PIs wholly
\* unchanged, and creates entries only for PIs that have usage rows: the
\* ledger the run holds agrees with the file on every entry of the file and
\* has no entry besides those but for PIs of the usage data.
C9_LedgerFrame ==
  pc \in {"for_pi", "old_rows", "credit_rows", "done"} =>
    /\ \A p \in DOMAIN Ledger :
         p \in DOMAIN old_pi_dict /\ old_pi_dict[p] = Ledger[p]
    /\ \A p \in DOMAIN old_pi_dict : p \in DOMAIN Ledger \/ InData(p)

\* A finished run with a credited new PI, beside a ledger entry of a PI
\* that has no usage rows.
C9_Witness ==
  /\ Distributed
  /\ \E p, q \in PIs :
       /\ IsNew(p) /\ TotalCredit(p) > 0
       /\ ~InData(q) /\ HasEntry(q) /\ q \in DOMAIN old_pi_dict

\* ----------------------------------------------------------------- C10
\* C10: after distribution a row has credit code "0002" exactly when it has
\* a credit value, and has a credit value exactly when the credit applied
\* to it is greater than 0; a row with cost 0 has neither.
C10_CreditCodeIffPositiveCredit ==
  Distributed =>
    \A i \in Rows :
      /\ (dataframe[i].code = Some(new_pi_credit_code)) <=>
           (dataframe[i].credit # None)
      /\ (dataframe[i].credit # None) <=> (Credit0(dataframe[i]) > 0)
      /\ dataframe[i].cost = 0 =>
           (dataframe[i].credit = None /\ dataframe[i].code = None)

\* ----------------------------------------------------------------- C11
IsGpu(row) == row.su_type \in LENOVO_SU_TYPES
NotGpuCost(p) ==
  SumSeq([n \in 1..Len(dataframe) |->
            IF dataframe[n].pi = p /\ ~IsGpu(dataframe[n])
              THEN dataframe[n].cost ELSE 0])

\* C11: a row whose SU Type is 'OpenShift GPUA100SXM4' or 'OpenStack
\* GPUA100SXM4' gets no new-PI credit and uses none of the PI's budget: it
\* has no credit, no credit code and balance = cost, and a PI without an
\* old-PI entry is credited min(cost of its other rows, credit amount).
C11_GpuRowsNotCredited ==
  Distributed =>
    /\ \A i \in Rows :
         IsGpu(dataframe[i]) =>
           /\ dataframe[i].credit = None
           /\ dataframe[i].code = None
           /\ dataframe[i].balance = dataframe[i].cost
    /\ \A p \in MainPIs :
         (InData(p) /\ ~HasEntry(p)) =>
           TotalCredit(p) = Min(NotGpuCost(p), new_pi_credit_amount)

\* ----------------------------------------------------------------- C12
\* The columns of a row that the invoices bring.
AsRead(row) ==
  [pi |-> row.pi, project |-> row.project, su_type |-> row.su_type,
   institution |-> row.institution, month |-> row.month, cost |-> row.cost]
Validated ==
  pc \in {"apply", "for_pi", "old_rows", "credit_rows", "done", "exit",
          "error", "export_invoices", "main_end", "upload_error"}
BillableRead ==
  SelectSeq(merged_dataframe, LAMBDA row :
    row.pi \notin nonbillable_pi /\ row.project \notin projects)
EmptyPIWarnings ==
  SelectSeq(stdout, LAMBDA line : line.warning = "has empty PI field")

StartedBy(list, institution, invoice) ==
  /\ institution \in DOMAIN list
  /\ \E d \in list[institution] :
       \/ d.year < invoice[1]
       \/ d.year = invoice[1] /\ parse_month(d.month) <= invoice[2]

\* C13: with the partner gate on, the partner filter returns exactly the
\* rows, in their order, whose institution has a partnership start month on
\* or before the invoice month as calendar months ("2024-6" is June 2024);
\* an institution with no record or no start date is left out.
C13_PartnerFilter ==
  Returned("filter_partners") =>
    LET in == call.data
        out == TheResult
    IN
    /\ \A i \in 1..Len(in) :
         (\E k \in 1..Len(out) : out[k] = in[i])
           <=> StartedBy(call.institute_list, in[i].institution,
                         call.invoice_month)
    /\ InOrder(out)
    /\ Labels(out) \subseteq 1..Len(in)
    /\ Cardinality(Labels(out)) = Len(out)

\* Invoice month 2024-06: a partner since "2024-6" is kept, beside a row of
\* an institution that is left out.
C13_Witness ==
  /\ Returned("filter_partners")
  /\ call.invoice_month = <<2024, 6>>
  /\ Len(call.data) = 2 /\ Len(TheResult) = 1
  /\ \E d \in call.institute_list[TheResult[1].institution] :
       d.month = <<6>>

\* ----------------------------------------------------------------- C14
\* The partner tables the gate may be given.
GateTables ==
  UNION {[S -> {Some(d) : d \in StartDates} \cup {None}] :
           S \in SUBSET {"Boston University"}}

\* C14: with the partner gate on, whatever the partner table, a row whose
\* institution is no partner by the invoice month has no credit and
\* balance = cost, whether or not its PI has an old-PI entry.
C14_NonPartnerNotCredited ==
  Distributed =>
    \A list \in GateTables : \A i \in Rows :
      ~StartedBy(list, dataframe[i].institution, CurrentMonth) =>
        /\ dataframe[i].credit = None
        /\ dataframe[i].balance = dataframe[i].cost

\* ----------------------------------------------------------------- C15
\* C15: with the age of a listed PI the month difference of the invoice
\* month and its first invoice month, the PI is taken as old exactly when
\* its age is 2 or more, and as entitled to credit (new, aging) exactly when
\* its age is 0 or 1.
C15_ClassifiedByAge ==
  (pc \in {"old_rows", "credit_rows"} /\ HasEntry(ThePi)) =>
    LET age == get_month_diff(CurrentMonth, Ledger[ThePi]) IN
    /\ (pc = "old_rows") <=> (age >= 2)
    /\ (pc = "credit_rows") <=> (age \in {0, 1})

\* ----------------------------------------------------------------- C16
FirstRun == CHOOSE df \in first_run : TRUE
FirstCredit(p) == SumCredit(FirstRun, pi_projects_of(FirstRun, p))

\* C16: a second invocation for the same invoice month, over what the first
\* left, applies credit again on top of the first: what the PI has used
\* counts the credit of both runs, so the second run credits a new PI only
\* from what the first run left of its credit amount.
C16_SecondRunCountsFirst ==
  (runs = 2 /\ Distributed) =>
    \A p \in PIs :
      IsNew(p) =>
        TotalCredit(p) =
          Min(TotalCost(p), new_pi_credit_amount - FirstCredit(p))

\* ----------------------------------------------------------------- C17
IsReport(event) == event.op \in {"to_csv", "upload_file"}
CreditStageDone == pc \in {"export_invoices", "main_end", "upload_error"}

\* C17: a report is written or uploaded only after apply_credits_new_pi has
\* returned, so a run that ends in the credit stage (no old-PI file, no row
\* to take the invoice month from) has written and uploaded nothing.
C17_NoReportBeforeCredits ==
  /\ (\E k \in 1..Len(io) : IsReport(io[k])) =>
       (CreditStageDone /\ current_pi_list = <<>>)
  /\ pc \in {"exit", "error"} => \A k \in 1..Len(io) : ~IsReport(io[k])

\* A run with upload on that ended for want of the old-PI file, with rows
\* merged and the non-billable invoice already on the invoice list.
C17_Witness ==
  /\ pc = "exit"
  /\ args.upload_to_s3
  /\ Len(dataframe) > 0
  /\ Len(invoice_list) = 1 /\ Len(invoice_list[1].dataframe) > 0
  /\ \A k \in 1..Len(io) : ~IsReport(io[k])

\* ----------------------------------------------------------------- C18
GroupRows(name) ==
  SelectSeq(call.data, LAMBDA r :
    r.institution = subsidised_institution /\ get_project(r.project) = name)
GroupsOf(p) == SelectSeq(TheResult, LAMBDA g : g.pi = p)
Grouped ==
  /\ \A k, l \in 1..Len(TheResult) :
       k # l => TheResult[k].project # TheResult[l].project
  /\ {TheResult[k].project : k \in 1..Len(TheResult)} =
       {get_project(call.data[i].project) :
          i \in {j \in 1..Len(call.data) :
                   call.data[j].institution = subsidised_institution}}
  /\ \A k \in 1..Len(TheResult) :
       LET g == TheResult[k] IN
       /\ g.cost = SumSeq([n \in 1..Len(GroupRows(g.project)) |-> GroupRows(g.project)[n].amounts.cost])
       /\ g.credit = SumSeq([n \in 1..Len(GroupRows(g.project)) |-> GroupRows(g.project)[n].amounts.credit])

C19_BillablesPartition ==
  Returned("remove_non_billables") =>
    LET in == call.dataframe
        out == TheResult
        listed(row) == row.pi \in call.pi \/ row.project \in call.projects
    IN
    /\ \A i \in 1..Len(in) :
         /\ (\E k \in 1..Len(out.billable) : out.billable[k] = in[i])
              <=> ~listed(in[i])
         /\ (\E k \in 1..Len(out.nonbillable) : out.nonbillable[k] = in[i])
              <=> listed(in[i])
         /\ out.is_billable[i] <=> ~listed(in[i])
    /\ Labels(out.billable) \cap Labels(out.nonbillable) = {}
    /\ Labels(out.billable) \cup Labels(out.nonbillable) = 1..Len(in)
    /\ Len(out.billable) + Len(out.nonbillable) = Len(in)
    /\ InOrder(out.billable) /\ InOrder(out.nonbillable)

\* Two rows, one billable and one that is non-billable by its project alone,
\* with both lists non-empty.
C19_Witness ==
  /\ Returned("remove_non_billables")
  /\ Len(TheResult.billable) = 1 /\ Len(TheResult.nonbillable) = 1
  /\ call.pi # {} /\ call.projects # {}
  /\ \E i \in 1..Len(call.dataframe) :
       /\ call.dataframe[i].pi \notin call.pi
       /\ call.dataframe[i].project \in call.projects

\* ----------------------------------------------------------------- C20
InWindow(row, month) ==
  MonthIndex(row.start) <= MonthIndex(month) /\
  MonthIndex(month) <= MonthIndex(row.end)

\* C20: timed_projects returns exactly the projects of the lines whose
\* window has Start Date <= invoice month <= End Date, both ends included,
\* in the order of the file.
C20_TimedProjectsInWindow ==
  Returned("timed_projects") =>
    LET file == call.timed_projects_file
        month == call.invoice_date
        hits == {i \in 1..Len(file) : InWindow(file[i], month)}
        out == TheResult
    IN
    /\ Len(out) = Cardinality(hits)
    /\ \A i \in hits : out[Cardinality({j \in hits : j <= i})] = file[i].project

\* A window that ends in the invoice month, after one that ended before it
\* and before one that starts in it.
C20_Witness ==
  /\ Returned("timed_projects")
  /\ Len(call.timed_projects_file) = 2
  /\ Len(TheResult) = 1
  /\ \E i \in 1..2 :
       /\ call.timed_projects_file[i].end = call.invoice_date
       /\ MonthIndex(call.timed_projects_file[i].start)
            < MonthIndex(call.invoice_date)
       /\ TheResult[1] = call.timed_projects_file[i].project

\* ----------------------------------------------------------------- C21
PerPIExported == Returned("export_pi_billables") \/ Returned("PIInvoice.export")
NamedPIs(df) == {df[i].pi : i \in 1..Len(df)} \ {nan}
RowsOfPI(df, p) == SelectSeq(df, LAMBDA row : row.pi = p)
\* What stands between the PI and the invoice month in a file's name.
BeforeMonth == IF call.fn = "export_pi_billables" THEN "_" ELSE " "

\* C21: the per-PI export writes exactly one file for each PI of the rows
\* that is not missing, named from an institution of that PI's rows, the PI
\* and the invoice month; the file holds all rows of that PI, in order, and
\* no other row; a row with a missing PI is in no file.
C21_OneFilePerPI ==
  PerPIExported =>
    LET df == call.dataframe
        files == TheResult
    IN
    /\ Len(files) = Cardinality(NamedPIs(df))
    /\ \A k, l \in 1..Len(files) : k # l => files[k].path # files[l].path
    /\ \A p \in NamedPIs(df) :
         \E k \in 1..Len(files) :
           /\ files[k].op = "to_csv"
           /\ \E i \in 1..Len(df) :
                /\ df[i].pi = p
                /\ files[k].path = <<df[i].institution, "_", p, BeforeMonth,
                                     call.invoice_month, ".csv">>
           /\ files[k].rows = RowsOfPI(df, p)
    /\ \A k \in 1..Len(files) :
         \A n \in 1..Len(files[k].rows) : files[k].rows[n].pi # nan

\* An export of three rows: a PI's row, a row with no PI, the PI's second
\* row; one file with the first and the third row has been written.
C21_Witness ==
  /\ PerPIExported
  /\ Len(call.dataframe) = 3
  /\ call.dataframe[1].pi = "PI1"
  /\ call.dataframe[2].pi = nan
  /\ call.dataframe[3].pi = "PI1"
  /\ Len(TheResult) = 1
  /\ Len(TheResult[1].rows) = 2

\* ----------------------------------------------------------------- C22
\* The labels of key are the last labels of domain.
IsSuffix(key, domain) ==
  /\ Len(key) <= Len(domain)
  /\ SubSeq(domain, Len(domain) - Len(key) + 1, Len(domain)) = key
MappedSuffixes(map, domain) == {key \in DOMAIN map : IsSuffix(key, domain)}
MostSpecific(keys) == CHOOSE key \in keys : \A l \in keys : Len(l) <= Len(key)

\* C22: the institution of a PI is that of the most specific mapped domain
\* that is a suffix of the domain of the PI's e-mail, a sub-domain of a
\* mapped domain included; when no mapped domain is a suffix the result is
\* the empty string, with a warning.
C22_MostSpecificDomain ==
  Returned("get_institution_from_pi") =>
    LET map == call.institute_map
        mapped == MappedSuffixes(map, institution_key(call.pi_uname))
    IN IF mapped = {}
         THEN /\ TheResult.institution_name = ""
              /\ Len(TheResult.stdout) = 1
         ELSE /\ TheResult.institution_name = map[MostSpecific(mapped)]
              /\ TheResult.stdout = <<>>

\* ----------------------------------------------------------------- C23
ExportInvoicesOver == pc \in {"main_end", "upload_error"}
Uploads == SelectSeq(io, LAMBDA event : event.op = "upload_file")
\* The place in io of the n-th upload.
RECURSIVE PlaceOfUpload(_, _)
PlaceOfUpload(n, k) ==
  IF io[k].op = "upload_file"
    THEN (IF n = 1 THEN k ELSE PlaceOfUpload(n - 1, k + 1))
    ELSE PlaceOfUpload(n, k + 1)
InvoiceMonthOfRun == CHOOSE m \in args.invoice_month : TRUE
UnderInvoices(path) ==
  Len(path) > 3 /\ path[1] = "Invoices/" /\ path[2] = InvoiceMonthOfRun
    /\ path[3] = "/"
InArchive(path) ==
  UnderInvoices(path) /\ path[4] = "Archive/"
    /\ \E n \in 1..Len(path) : path[n] = get_iso8601_time

\* C23: once export_invoices is over, with upload enabled every invoice of
\* the invoice list has been uploaded exactly twice, in the order of the
\* list: first to its path under Invoices/<invoice month>/, then to its
\* timestamped path under Invoices/<invoice month>/Archive/, and its local
\* file was written before its first upload; with upload disabled nothing
\* has been uploaded.
C23_UploadedTwiceInOrder ==
  ExportInvoicesOver =>
    IF args.upload_to_s3
      THEN /\ Len(Uploads) = 2 * Len(invoice_list)
           /\ \A n \in 1..Len(invoice_list) :
                LET current == Uploads[2 * n - 1]
                    archive == Uploads[2 * n]
                IN /\ current.from = invoice_list[n].local_path
                   /\ archive.from = invoice_list[n].local_path
                   /\ UnderInvoices(current.path) /\ ~InArchive(current.path)
                   /\ InArchive(archive.path)
                   /\ \E k \in 1..PlaceOfUpload(2 * n - 1, 1) :
                        /\ io[k].op = "to_csv"
                        /\ io[k].path = invoice_list[n].local_path
      ELSE Uploads = <<>>

\* ----------------------------------------------------------------- C24
\* What a PI brings to a run: the costs of its rows in their order, and its
\* line of the old-PI file, if it has one.
OwnRows(p) == IndicesFrom(dataframe, p, 1)
OwnCosts(p) ==
  [n \in 1..Len(OwnRows(p)) |->
     dataframe[OwnRows(p)[n]].cost]
OwnEntry(p) ==
  IF p \in DOMAIN old_pi_file.lines THEN Some(old_pi_file.lines[p]) ELSE None
\* The credit columns of the rows of p, in their order.
OwnColumns(p) ==
  [n \in 1..Len(OwnRows(p)) |->
     LET row == dataframe[OwnRows(p)[n]]
     IN [credit |-> row.credit, code |-> row.code, balance |-> row.balance]]

RECURSIVE ColumnsFromCosts(_, _, _)
\* The columns that follow from the costs alone for a PI that is credited:
\* each row draws on what the rows before it left, and the rows after the
\* one that took the last of the credit are left as they were reset.
ColumnsFromCosts(costs, remaining, stopped) ==
  IF costs = <<>> THEN <<>>
  ELSE IF stopped
    THEN <<[credit |-> None, code |-> None, balance |-> 0]>>
         \o ColumnsFromCosts(Tail(costs), remaining, stopped)
    ELSE LET applied == Min(Head(costs), remaining)
         IN <<[credit |-> Some(applied), code |-> Some(new_pi_credit_code),
               balance |-> Head(costs) - applied]>>
            \o ColumnsFromCosts(Tail(costs), remaining - applied,
                                remaining - applied = 0)
\* The columns that follow from a PI's own costs and own entry.
ColumnsFromOwn(costs, entry, month) ==
  IF entry # None /\ entry # Some(month)
    THEN [n \in 1..Len(costs) |->
            [credit |-> None, code |-> None, balance |-> costs[n]]]
    ELSE ColumnsFromCosts(costs, new_pi_credit_amount, FALSE)

\* C24: with one invoice month on all rows, the credit, credit code and
\* balance of a PI's rows after the run are a function of that PI's own
\* rows, in their order, and of that PI's own old-PI entry: whatever rows
\* and entries the other PIs have, and wherever their rows stand, the
\* columns are the same.
C24_OwnRowsAndEntryOnly ==
  Distributed =>
    \A p \in PIs :
      OwnColumns(p) = ColumnsFromOwn(OwnCosts(p), OwnEntry(p), CurrentMonth)

\* A run over rows of two PIs, those of the first around one of the second;
\* the first was credited on both rows, the second is old and has an entry.
C24_Witness ==
  /\ Distributed
  /\ Len(dataframe) = 3
  /\ dataframe[1].pi = "PI1" /\ dataframe[2].pi = "PI2"
  /\ dataframe[3].pi = "PI1"
  /\ Credit0(dataframe[1]) > 0 /\ Credit0(dataframe[3]) > 0
  /\ OwnEntry("PI2") # None /\ dataframe[2].balance = dataframe[2].cost
  /\ dataframe[2].cost > 0

\* ----------------------------------------------------------------- C25
RowBounds ==
  \A i \in Rows :
    dataframe[i].cost >= 0 =>
    /\ 0 <= Credit0(dataframe[i]) /\ Credit0(dataframe[i]) <= dataframe[i].cost
    /\ dataframe[i].balance >= 0
BudgetBounds == 0 <= remaining_credit /\ remaining_credit <= new_pi_credit_amount
\* A step within the rows of one PI.
SamePiStep == pc = "credit_rows" /\ pi' = pi

\* C25: with costs that are not negative, at every step of the run and
\* after it every row has 0 <= credit <= cost (no credit counting as 0) and
\* balance >= 0; the credit that remains for a PI is never below 0, and
\* from one row of the PI to the next it never grows.
C25_CreditWithinCostAndBudget ==
  /\ [](RowBounds /\ BudgetBounds)
  /\ [][SamePiStep => remaining_credit' <= remaining_credit]_vars

\* Midway through a PI's rows: its first row took part of the credit, and
\* the second, which cost more than what was left, was credited in part and
\* has a balance.
C25_Witness ==
  /\ pc \in {"credit_rows", "for_pi"}
  /\ pi # None /\ remaining_credit = 0
  /\ \E i, j \in Rows :
       /\ i < j
       /\ dataframe[i].pi = ThePi /\ dataframe[j].pi = ThePi
       /\ Credit0(dataframe[i]) = dataframe[i].cost /\ dataframe[i].cost > 0
       /\ 0 < Credit0(dataframe[j])
       /\ Credit0(dataframe[j]) < dataframe[j].cost
       /\ dataframe[j].balance > 0
====
